---- MODULE Spec2Model ----
(***************************************************************************)
(* Model of the matrimonial REST backend of src/index.js (the authenticated *)
(* variant, lines 1-886): the users, members (biodata), contactRequests and  *)
(* favourites collections and the handlers that read and write them.  The   *)
(* success_counters collection is only ever read and is left out.           *)
(*                                                                          *)
(* A collection is the sequence of its documents in insertion order, so     *)
(* that findOne / updateOne act on the first matching document, as the      *)
(* store does.  Every handler is one action: requests do not overlap,       *)
(* except in SpecConcurrent, where POST /contact-requests is split at the   *)
(* await between its existence check and its insert; `creating` holds the   *)
(* handlers suspended there.  `alive` is false once the process has exited. *)
(* The body of a response is the sequence of the documents it carries.      *)
(*                                                                          *)
(* Values.  A JSON value that the code only tests for presence, truthiness  *)
(* or type is one of the strings "undefined", "true", "false": a flag in a  *)
(* body is a boolean or is missing.                                         *)
(* ObjectIds are the naturals 1, 2, ...; 0 is the malformed id (the one     *)
(* ObjectId.isValid refuses) and, in a JSON body, the missing/falsy id.     *)
(* Dates are the values of the clock `now`; 0 is the missing date.          *)
(* The e-mail addresses of the model hold no regular-expression             *)
(* metacharacter, so `^${email}$` with flag i is case-insensitive equality. *)
(***************************************************************************)
EXTENDS Naturals, Sequences, FiniteSets

VARIABLES usersCollection, membersCollection, contactRequestsCollection,
          favouritesCollection, creating, alive, nextId, now, resp

vars == <<usersCollection, membersCollection, contactRequestsCollection,
          favouritesCollection, creating, alive, nextId, now, resp>>

(***************************************************************************)
(* Bounds of the model.                                                     *)
(***************************************************************************)
MaxUsers == 2
MaxBiodatas == 2
MaxRequests == 2
MaxTime == 2
MaxFavourites == 2
MaxCreating == 2

(***************************************************************************)
(* Domains of the inputs.                                                   *)
(***************************************************************************)
NoEmail == ""
\* decoded.email of the tokens the identity provider verifies
TokenEmails == {"admin@x.io", "Alice@x.io"}
Tokens == TokenEmails
\* e-mail addresses as they arrive in a path or body
RawEmails == {"admin@x.io", "Alice@x.io"}
RoleInputs == {"undefined", "user", "admin"}
\* role of a POST /users body: missing, or the one value that is not the default
BodyRoles == {"undefined", "admin"}
PremiumInputs == {"undefined", "true", "false"}
\* req.file: "none" no file sent, "bad" a file the image host refuses,
\* otherwise the URL the image host returns for the file
ImageUrls == {"img1", "img2"}
FileInputs == {"none", "bad"} \cup ImageUrls
BiodataIds == 0..MaxBiodatas
\* biodataId of a POST /contact-requests body: any value, 0 the falsy one
BodyBiodataIds == {0, 1, 2}
RequestIds == 0..MaxRequests
FavouriteIds == 0..MaxFavourites

(***************************************************************************)
(* String.prototype.toLowerCase on the addresses of the model.              *)
(***************************************************************************)
toLowerCase(s) == IF s = "Alice@x.io" THEN "alice@x.io" ELSE s

\* new RegExp(`^${pattern}$`, 'i') matched against a stored field; a document
\* without the field does not match.
RegexMatch(pattern, field) ==
    /\ field # NoEmail
    /\ toLowerCase(pattern) = toLowerCase(field)

\* value || false, as stored and as tested
OrFalse(v) == IF v = "true" THEN "true" ELSE "false"

\* findOne: index of the first document of coll that satisfies the filter,
\* given the set of indices of the matching documents; 0 when there is none
FirstIndex(matching) ==
    IF matching = {} THEN 0
    ELSE CHOOSE i \in matching : \A j \in matching : i <= j

\* usersCollection.findOne({ email: { $regex: ^email$, i } })
FindUser(email) ==
    LET P(u) == RegexMatch(email, u.email)
    IN  FirstIndex({k \in DOMAIN usersCollection : P(usersCollection[k])})

\* membersCollection.findOne({ email: { $regex: ^email$, i } })
FindMemberByEmail(email) ==
    LET P(m) == RegexMatch(email, m.email)
    IN  FirstIndex({k \in DOMAIN membersCollection : P(membersCollection[k])})

\* membersCollection.findOne({ _id: new ObjectId(id) })
FindMemberById(id) ==
    LET P(m) == m._id = id
    IN  FirstIndex({k \in DOMAIN membersCollection : P(membersCollection[k])})

(***************************************************************************)
(* Middleware.                                                              *)
(***************************************************************************)
\* authenticate: req.user.email of a verified token
authenticate(tok) == toLowerCase(tok)

\* authorizeAdmin letting every registered caller through
authorizeAdmin_Registered(email) == FindUser(email) # 0

\* authorizeAdmin: the caller's stored role is admin
authorizeAdmin(email) ==
    LET i == FindUser(email)
    IN  i # 0 /\ usersCollection[i].role = "admin"

Response(op, email, id, target, value, code, body) ==
    [op |-> op, email |-> email, id |-> id, target |-> target,
     value |-> value, code |-> code, body |-> body]

\* the response to a multipart request, with the file that was sent
UploadResponse(op, email, id, value, code, file) ==
    [op |-> op, email |-> email, id |-> id, target |-> NoEmail,
     value |-> value, code |-> code, body |-> <<>>, file |-> file]

(***************************************************************************)
(* The state at start-up: a store that holds one administrator.             *)
(***************************************************************************)
Init ==
    /\ usersCollection =
           <<[email |-> "admin@x.io", role |-> "admin", isPremium |-> "false"]>>
    /\ membersCollection = <<>>
    /\ contactRequestsCollection = <<>>
    /\ favouritesCollection = <<>>
    /\ creating = <<>>
    /\ alive = TRUE
    /\ nextId = 1
    /\ now = 1
    /\ resp = Response("start", NoEmail, 0, NoEmail, "undefined", 0, <<>>)

\* the wall clock read by new Date()
Tick ==
    /\ now < MaxTime
    /\ now' = now + 1
    /\ UNCHANGED <<usersCollection, membersCollection,
                   contactRequestsCollection, nextId, resp,
                   favouritesCollection, creating, alive>>

(***************************************************************************)
(* Store updates.                                                           *)
(***************************************************************************)
\* updateOne(filter, { $set: { isPremium } }) on the document at index i
SetPremiumAt(coll, i, isPremium) ==
    IF i = 0 THEN coll ELSE [coll EXCEPT ![i].isPremium = isPremium]

\* deleteOne on the document at index i
RemoveAt(coll, i) ==
    [k \in 1..(Len(coll) - 1) |-> IF k < i THEN coll[k] ELSE coll[k + 1]]

(***************************************************************************)
(* POST /users                                                              *)
(***************************************************************************)
PostUsersCode(tok, targetEmail) ==
    LET me == authenticate(tok)
        email == IF targetEmail # "undefined" THEN toLowerCase(targetEmail) ELSE me
    IN  IF /\ targetEmail # "undefined"
                /\ toLowerCase(targetEmail) # toLowerCase(me)
                /\ ~authorizeAdmin(me) THEN 403
        ELSE IF FindUser(email) # 0 THEN 409
        ELSE 201

\* the document POST /users inserts
NewUser(email, role, isPremium) ==
    [email |-> toLowerCase(email),
     role |-> IF role = "undefined" THEN "user" ELSE role,
     isPremium |-> IF isPremium = "undefined" THEN "false" ELSE isPremium]

PostUsers(tok, role, isPremium, targetEmail) ==
    LET me == authenticate(tok)
        email == IF targetEmail # "undefined" THEN toLowerCase(targetEmail) ELSE me
        code == PostUsersCode(tok, targetEmail)
    IN  /\ code = 201 => Len(usersCollection) < MaxUsers
        /\ usersCollection' =
               IF code = 201
               THEN Append(usersCollection, NewUser(email, role, isPremium))
               ELSE usersCollection
        /\ alive
        /\ resp' = Response("PostUsers", me, 0, NoEmail, "undefined", code, <<>>)
        /\ UNCHANGED <<membersCollection, contactRequestsCollection, nextId, now,
                       favouritesCollection, creating, alive>>

(***************************************************************************)
(* GET /users                                                               *)
(***************************************************************************)
GetUsers(tok) ==
    LET me == authenticate(tok)
        code == IF authorizeAdmin(me) THEN 200 ELSE 403
    IN  /\ alive
        /\ resp' = Response("GetUsers", me, 0, NoEmail, "undefined", code,
                            IF code = 200 THEN usersCollection ELSE <<>>)
        /\ UNCHANGED <<usersCollection, membersCollection,
                       contactRequestsCollection, favouritesCollection,
                       creating, alive, nextId, now>>

(***************************************************************************)
(* PATCH /users/:email/role                                                 *)
(***************************************************************************)
\* the own-role check letting every request through
IsOwnRole_Never(me, emailToUpdate) == FALSE

\* "Prevent updating your own role": req.user.email === emailToUpdate
IsOwnRole(me, emailToUpdate) == me = emailToUpdate

PatchUserRoleCode(tok, emailParam, role) ==
    LET me == authenticate(tok)
        emailToUpdate == toLowerCase(emailParam)
    IN  IF ~authorizeAdmin(me) THEN 403
        ELSE IF role \notin {"admin", "user"} THEN 400
        ELSE IF FindUser(emailToUpdate) = 0 THEN 404
        ELSE IF IsOwnRole(me, emailToUpdate) THEN 403
        ELSE 200

PatchUserRole(tok, emailParam, role) ==
    LET me == authenticate(tok)
        emailToUpdate == toLowerCase(emailParam)
        code == PatchUserRoleCode(tok, emailParam, role)
        i == FindUser(emailToUpdate)
    IN  /\ usersCollection' =
               IF code = 200
               THEN [usersCollection EXCEPT ![i].role = role]
               ELSE usersCollection
        /\ alive
        /\ resp' = Response("PatchUserRole", me, 0, emailToUpdate, role, code, <<>>)
        /\ UNCHANGED <<membersCollection, contactRequestsCollection, nextId, now,
                       favouritesCollection, creating, alive>>

(***************************************************************************)
(* PATCH /users/:email/premium                                              *)
(***************************************************************************)
PatchUserPremiumCode(tok, emailParam, isPremium) ==
    LET me == authenticate(tok)
        emailToUpdate == toLowerCase(emailParam)
    IN  IF ~authorizeAdmin(me) THEN 403
        ELSE IF isPremium \notin {"true", "false"} THEN 400
        ELSE IF FindUser(emailToUpdate) = 0 THEN 404
        ELSE 200

\* SyncToMembers left out: the biodata keeps its flag
SyncToMembers_Skipped(emailToUpdate, isPremium) == membersCollection

\* "Sync to members if biodata exists": membersCollection.updateOne by e-mail
SyncToMembers(emailToUpdate, isPremium) ==
    SetPremiumAt(membersCollection, FindMemberByEmail(emailToUpdate), isPremium)

\* a handler whose checks answer without `return`: it goes on to its writes
Returned_Never(code) == FALSE

\* `return res.status(code).json(...)` on a failed check: the handler stops
Returned(code) == code # 200

PatchUserPremium(tok, emailParam, isPremium) ==
    LET me == authenticate(tok)
        emailToUpdate == toLowerCase(emailParam)
        code == PatchUserPremiumCode(tok, emailParam, isPremium)
    IN  /\ usersCollection' =
               IF ~Returned(code)
               THEN SetPremiumAt(usersCollection, FindUser(emailToUpdate), isPremium)
               ELSE usersCollection
        /\ membersCollection' =
               IF ~Returned(code)
               THEN SyncToMembers(emailToUpdate, isPremium)
               ELSE membersCollection
        /\ alive
        /\ resp' = Response("PatchUserPremium", me, 0, emailToUpdate, isPremium,
                            code, <<>>)
        /\ UNCHANGED <<contactRequestsCollection, nextId, now,
                       favouritesCollection, creating, alive>>

(***************************************************************************)
(* POST /contact-requests                                                   *)
(***************************************************************************)
\* IsPremiumCaller with the fallback testing the user document, not its flag
IsPremiumCaller_AnyUser(email) ==
    LET m == FindMemberByEmail(email)
        u == FindUser(email)
        fromMembers == IF m = 0 THEN "false" ELSE OrFalse(membersCollection[m].isPremium)
    IN  IF fromMembers = "true" THEN TRUE ELSE u # 0

\* IsPremiumCaller taking the biodata's flag whenever the caller has a biodata
IsPremiumCaller_PreferBiodata(email) ==
    LET m == FindMemberByEmail(email)
        u == FindUser(email)
    IN  IF m # 0 THEN membersCollection[m].isPremium = "true"
        ELSE IF u = 0 THEN FALSE
        ELSE usersCollection[u].isPremium = "true"

\* "Check if user is premium (prioritize members, fallback to users)"
IsPremiumCaller(email) ==
    LET m == FindMemberByEmail(email)
        u == FindUser(email)
        fromMembers == IF m = 0 THEN "false" ELSE OrFalse(membersCollection[m].isPremium)
    IN  IF fromMembers = "true" THEN TRUE
        ELSE IF u = 0 THEN FALSE
        ELSE OrFalse(usersCollection[u].isPremium) = "true"

\* ExistingRequest looking for a pending request only
ExistingRequest_PendingOnly(email, biodataId) ==
    LET P(r) == /\ r.requesterEmail = email
                /\ r.requestedBiodataId = biodataId
                /\ r.status = "pending"
    IN  FirstIndex({k \in DOMAIN contactRequestsCollection : P(contactRequestsCollection[k])})

\* contactRequestsCollection.findOne({ requesterEmail, requestedBiodataId })
ExistingRequest(email, biodataId) ==
    LET P(r) == r.requesterEmail = email /\ r.requestedBiodataId = biodataId
    IN  FirstIndex({k \in DOMAIN contactRequestsCollection : P(contactRequestsCollection[k])})

PostContactRequestsCode(tok, biodataId) ==
    LET email == authenticate(tok)
    IN  IF biodataId = 0 THEN 400
        ELSE IF ~IsPremiumCaller(email) THEN 403
        ELSE IF ExistingRequest(email, biodataId) # 0 THEN 400
        ELSE 201

NewRequest(email, biodataId) ==
    [requesterEmail |-> email, requestedBiodataId |-> biodataId,
     status |-> "pending", createdAt |-> now, approvedAt |-> 0, rejectedAt |-> 0]

PostContactRequests(tok, biodataId) ==
    LET email == authenticate(tok)
        code == PostContactRequestsCode(tok, biodataId)
    IN  /\ code = 201 => Len(contactRequestsCollection) < MaxRequests
        /\ contactRequestsCollection' =
               IF code = 201
               THEN Append(contactRequestsCollection, NewRequest(email, biodataId))
               ELSE contactRequestsCollection
        /\ alive
        /\ resp' = Response("PostContactRequests", email, biodataId, NoEmail,
                            "undefined", code, <<>>)
        /\ UNCHANGED <<usersCollection, membersCollection, nextId, now,
                       favouritesCollection, creating, alive>>

(***************************************************************************)
(* PATCH /contact-requests/:id/approve and /reject.  The _id of a contact   *)
(* request is its position in the collection (requests are never deleted).  *)
(***************************************************************************)
ContactRequestCode(tok, requestId) ==
    LET me == authenticate(tok)
    IN  IF ~authorizeAdmin(me) THEN 403
        ELSE IF requestId = 0 THEN 500
        ELSE IF requestId > Len(contactRequestsCollection) THEN 404
        ELSE 200

\* updateOne({ _id }, { $set: { status: 'approved', approvedAt: new Date() } })
SetApproved(r) == [r EXCEPT !.status = "approved", !.approvedAt = now]

\* updateOne({ _id }, { $set: { status: 'rejected', rejectedAt: new Date() } })
SetRejected(r) == [r EXCEPT !.status = "rejected", !.rejectedAt = now]

Approve(tok, requestId) ==
    LET code == ContactRequestCode(tok, requestId)
    IN  /\ contactRequestsCollection' =
               IF code = 200
               THEN [contactRequestsCollection EXCEPT
                         ![requestId] = SetApproved(@)]
               ELSE contactRequestsCollection
        /\ alive
        /\ resp' = Response("Approve", authenticate(tok), requestId, NoEmail,
                            "undefined", code, <<>>)
        /\ UNCHANGED <<usersCollection, membersCollection, nextId, now,
                       favouritesCollection, creating, alive>>

Reject(tok, requestId) ==
    LET code == ContactRequestCode(tok, requestId)
    IN  /\ contactRequestsCollection' =
               IF code = 200
               THEN [contactRequestsCollection EXCEPT
                         ![requestId] = SetRejected(@)]
               ELSE contactRequestsCollection
        /\ alive
        /\ resp' = Response("Reject", authenticate(tok), requestId, NoEmail,
                            "undefined", code, <<>>)
        /\ UNCHANGED <<usersCollection, membersCollection, nextId, now,
                       favouritesCollection, creating, alive>>

(***************************************************************************)
(* POST /contact-requests as the runtime runs it when requests overlap: the *)
(* handler is suspended at `await insertOne`, after findOne has answered    *)
(* that no request exists, and other handlers run meanwhile.                *)
(***************************************************************************)
\* insertOne on a collection with a unique index on the pair
InsertOne_UniquePair(coll, doc) ==
    IF \E k \in DOMAIN coll :
           /\ coll[k].requesterEmail = doc.requesterEmail
           /\ coll[k].requestedBiodataId = doc.requestedBiodataId
    THEN coll
    ELSE Append(coll, doc)

\* contactRequestsCollection.insertOne(request)
InsertOne(coll, doc) == Append(coll, doc)

\* the handler up to the await of insertOne
CreateCheck(tok, biodataId) ==
    LET email == authenticate(tok)
        code == PostContactRequestsCode(tok, biodataId)
    IN  /\ alive
        /\ code = 201 => Len(creating) < MaxCreating
        /\ creating' =
               IF code = 201
               THEN Append(creating, [requesterEmail |-> email,
                                      requestedBiodataId |-> biodataId])
               ELSE creating
        /\ resp' = IF code = 201 THEN resp
                   ELSE Response("PostContactRequests", email, biodataId,
                                 NoEmail, "undefined", code, <<>>)
        /\ UNCHANGED <<usersCollection, membersCollection,
                       contactRequestsCollection, favouritesCollection, alive,
                       nextId, now>>

\* the suspended handler h resumes: insertOne, then the 201 answer
CreateInsert(h) ==
    LET c == creating[h]
    IN  /\ alive
        /\ Len(contactRequestsCollection) < MaxRequests
        /\ contactRequestsCollection' =
               InsertOne(contactRequestsCollection,
                         NewRequest(c.requesterEmail, c.requestedBiodataId))
        /\ creating' = RemoveAt(creating, h)
        /\ resp' = Response("PostContactRequests", c.requesterEmail,
                            c.requestedBiodataId, NoEmail, "undefined", 201,
                            <<>>)
        /\ UNCHANGED <<usersCollection, membersCollection,
                       favouritesCollection, alive, nextId, now>>

(***************************************************************************)
(* A store call that fails inside a try block: the catch answers 500 with   *)
(* a JSON error and nothing is written.                                     *)
(***************************************************************************)
CaughtOps == {"Approve", "Reject", "GetContactRequests", "GetMyContactRequests"}

StoreFailure(op, tok) ==
    /\ alive
    /\ resp' = Response(op, authenticate(tok), 0, NoEmail, "undefined", 500,
                        <<>>)
    /\ UNCHANGED <<usersCollection, membersCollection,
                   contactRequestsCollection, favouritesCollection, creating,
                   alive, nextId, now>>

(***************************************************************************)
(* GET /contact-requests and GET /my-contact-requests.  An entry of the     *)
(* body is the request with its _id; hasBiodata tells whether the entry     *)
(* carries a biodata field, whose value is the document found or null (the  *)
(* empty sequence).                                                         *)
(***************************************************************************)
\* membersCollection.findOne({ _id: new ObjectId(req.requestedBiodataId) })
FoundBiodata(biodataId) ==
    LET i == FindMemberById(biodataId)
    IN  IF i = 0 THEN <<>> ELSE <<membersCollection[i]>>

\* sort({ createdAt: -1 }) of the requests at the indices of S; requests of
\* one date stay in insertion order
RECURSIVE SortByCreatedAtDesc(_)
SortByCreatedAtDesc(S) ==
    IF S = {} THEN <<>>
    ELSE LET latest == {k \in S : \A j \in S :
                           contactRequestsCollection[j].createdAt
                               <= contactRequestsCollection[k].createdAt}
             first == FirstIndex(latest)
         IN  <<first>> \o SortByCreatedAtDesc(S \ {first})

\* the entry of request k, the biodata joined when withBiodata
RequestEntry(k, withBiodata) ==
    LET r == contactRequestsCollection[k]
    IN  [_id |-> k, requesterEmail |-> r.requesterEmail,
         requestedBiodataId |-> r.requestedBiodataId, status |-> r.status,
         createdAt |-> r.createdAt, hasBiodata |-> withBiodata,
         biodata |-> IF withBiodata THEN FoundBiodata(r.requestedBiodataId)
                     ELSE <<>>]

\* the join of GET /my-contact-requests made for every status
JoinsBiodata_Always(r) == TRUE

\* if (req.status === 'approved')
JoinsBiodata(r) == r.status = "approved"

GetMyContactRequestsBody(email) ==
    LET mine == {k \in DOMAIN contactRequestsCollection :
                    contactRequestsCollection[k].requesterEmail = email}
        order == SortByCreatedAtDesc(mine)
    IN  [n \in DOMAIN order |->
            RequestEntry(order[n],
                         JoinsBiodata(contactRequestsCollection[order[n]]))]

GetMyContactRequests(tok) ==
    LET email == authenticate(tok)
    IN  /\ alive
        /\ resp' = Response("GetMyContactRequests", email, 0, NoEmail,
                            "undefined", 200, GetMyContactRequestsBody(email))
        /\ UNCHANGED <<usersCollection, membersCollection,
                       contactRequestsCollection, favouritesCollection,
                       creating, alive, nextId, now>>

\* status of the query string: missing, or a status to filter on
StatusQueries == {"undefined", "approved"}

GetContactRequestsBody(status) ==
    LET found == {k \in DOMAIN contactRequestsCollection :
                     status = "undefined"
                         \/ contactRequestsCollection[k].status = status}
    IN  [n \in 1..Cardinality(found) |->
            LET k == CHOOSE k \in found :
                         Cardinality({j \in found : j < k}) = n - 1
            IN  RequestEntry(k, TRUE)]

GetContactRequests(tok, status) ==
    LET me == authenticate(tok)
        code == IF authorizeAdmin(me) THEN 200 ELSE 403
    IN  /\ alive
        /\ resp' = Response("GetContactRequests", me, 0, NoEmail, status, code,
                            IF code = 200 THEN GetContactRequestsBody(status)
                            ELSE <<>>)
        /\ UNCHANGED <<usersCollection, membersCollection,
                       contactRequestsCollection, favouritesCollection,
                       creating, alive, nextId, now>>

(***************************************************************************)
(* GET /biodatas/:id                                                        *)
(***************************************************************************)
\* $ifNull: [a, b]
IfNull(a, b) == IF a = "null" THEN b ELSE a

\* $lookup from users on email (exact equality) and $unwind, first result
LookupUserPremium(m) ==
    LET P(u) == u.email = m.email
        i == FirstIndex({k \in DOMAIN usersCollection : P(usersCollection[k])})
    IN  IF i = 0 THEN "null" ELSE usersCollection[i].isPremium

\* $addFields isPremium of the aggregation
ReportedPremium(m) == IfNull(m.isPremium, IfNull(LookupUserPremium(m), "false"))

GetBiodataCode(id) ==
    IF id = 0 THEN 400
    ELSE IF FindMemberById(id) = 0 THEN 404
    ELSE 200

\* a document of the aggregation: the biodata with the reported isPremium
\* ($project removes only the joined user)
Aggregated(m) == [m EXCEPT !.isPremium = ReportedPremium(m)]

GetBiodataBody(id) ==
    IF GetBiodataCode(id) = 200
    THEN <<Aggregated(membersCollection[FindMemberById(id)])>>
    ELSE <<>>

GetBiodata(id) ==
    /\ alive
    /\ resp' = Response("GetBiodata", NoEmail, id, NoEmail, "undefined",
                        GetBiodataCode(id), GetBiodataBody(id))
    /\ UNCHANGED <<usersCollection, membersCollection,
                   contactRequestsCollection, nextId, now,
                   favouritesCollection, creating, alive>>

(***************************************************************************)
(* GET /biodatas and GET /biodatas?email=                                   *)
(***************************************************************************)
GetBiodatasBody(emailQuery) ==
    LET email == toLowerCase(emailQuery)
        matched == IF emailQuery = "undefined" THEN membersCollection
                   ELSE SelectSeq(membersCollection,
                                  LAMBDA m : RegexMatch(email, m.email))
    IN  [k \in DOMAIN matched |-> Aggregated(matched[k])]

GetBiodatas(emailQuery) ==
    /\ alive
    /\ resp' = Response("GetBiodatas", NoEmail, 0,
                        IF emailQuery = "undefined" THEN NoEmail
                        ELSE toLowerCase(emailQuery),
                        "undefined", 200, GetBiodatasBody(emailQuery))
    /\ UNCHANGED <<usersCollection, membersCollection,
                   contactRequestsCollection, favouritesCollection, creating,
                   alive, nextId, now>>

(***************************************************************************)
(* POST /biodatas                                                           *)
(***************************************************************************)
\* the existence check of POST /biodatas finding nothing
ExistingBiodata_Never(email) == 0

\* membersCollection.findOne({ email: { $regex: ^email.toLowerCase()$, i } })
ExistingBiodata(email) == FindMemberByEmail(toLowerCase(email))

PostBiodatasCode(tok, file) ==
    LET email == authenticate(tok)
    IN  IF ExistingBiodata(email) # 0 THEN 400
        ELSE IF file = "none" THEN 400
        ELSE IF file = "bad" THEN 500
        ELSE 201

\* "Fetch isPremium from users or default to false"
UserPremiumOrFalse(email) ==
    LET u == FindUser(email)
    IN  IF u = 0 THEN "false" ELSE OrFalse(usersCollection[u].isPremium)

PostBiodatas(tok, file) ==
    LET email == authenticate(tok)
        code == PostBiodatasCode(tok, file)
        newBiodata == [_id |-> nextId, email |-> toLowerCase(email),
                       isPremium |-> UserPremiumOrFalse(email),
                       profileImage |-> file,
                       contactEmail |-> toLowerCase(email)]
    IN  /\ code = 201 => nextId <= MaxBiodatas
        /\ membersCollection' =
               IF code = 201 THEN Append(membersCollection, newBiodata)
               ELSE membersCollection
        /\ nextId' = IF code = 201 THEN nextId + 1 ELSE nextId
        /\ alive
        /\ resp' = UploadResponse("PostBiodatas", email, 0, "undefined", code,
                                  file)
        /\ UNCHANGED <<usersCollection, contactRequestsCollection, now,
                       favouritesCollection, creating, alive>>

(***************************************************************************)
(* PATCH /biodatas/:id                                                      *)
(***************************************************************************)
\* MayUpdate letting every registered user through
MayUpdate_AnyUser(me, existingBiodata) ==
    \/ FindUser(me) # 0
    \/ toLowerCase(existingBiodata.email) = toLowerCase(me)

\* the owner-or-admin check of the handler
MayUpdate(me, existingBiodata) ==
    \/ authorizeAdmin(me)
    \/ toLowerCase(existingBiodata.email) = toLowerCase(me)

PatchBiodataCode(tok, id) ==
    LET me == authenticate(tok)
        i == FindMemberById(id)
    IN  IF id = 0 THEN 400
        ELSE IF i = 0 THEN 404
        ELSE IF ~MayUpdate(me, membersCollection[i]) THEN 403
        ELSE 200

\* "Preserve or fetch isPremium from users if not provided": the user record
\* read is the caller's (const { email } = req.user)
ResolvedPremium(email, isPremium) ==
    IF isPremium # "undefined" THEN isPremium ELSE UserPremiumOrFalse(email)

\* "Sync back to users": updateOne by the caller's e-mail with upsert; the
\* document an upsert inserts takes no field from a $regex filter
SyncBackToUsers(email, isPremium) ==
    IF FindUser(email) # 0
    THEN SetPremiumAt(usersCollection, FindUser(email), isPremium)
    ELSE Append(usersCollection,
                [email |-> NoEmail, role |-> "undefined", isPremium |-> isPremium])

\* the image of the update when a failed upload leaves the biodata without one
ProfileImageURL_LostOnFailure(file, existingBiodata) ==
    IF file \in ImageUrls THEN file
    ELSE IF file = "bad" THEN "undefined"
    ELSE existingBiodata.profileImage

\* let profileImageURL = existingBiodata.profileImage, replaced by the URL of
\* the upload when a file was sent and the image host accepted it
ProfileImageURL(file, existingBiodata) ==
    IF file \in ImageUrls THEN file ELSE existingBiodata.profileImage

PatchBiodata(tok, id, file, isPremium) ==
    LET email == authenticate(tok)
        code == PatchBiodataCode(tok, id)
        i == FindMemberById(id)
        existingBiodata == membersCollection[i]
        profileImageURL == ProfileImageURL(file, existingBiodata)
        resolved == ResolvedPremium(email, isPremium)
        updatedBiodata == [_id |-> existingBiodata._id,
                           email |-> toLowerCase(existingBiodata.email),
                           isPremium |-> resolved,
                           profileImage |-> profileImageURL,
                           contactEmail |-> existingBiodata.contactEmail]
    IN  /\ (code = 200 /\ FindUser(email) = 0) => Len(usersCollection) < MaxUsers
        /\ membersCollection' =
               IF code = 200
               THEN [membersCollection EXCEPT ![i] = updatedBiodata]
               ELSE membersCollection
        /\ usersCollection' =
               IF code = 200 THEN SyncBackToUsers(email, resolved)
               ELSE usersCollection
        /\ alive
        /\ resp' = UploadResponse("PatchBiodata", email, id, isPremium, code,
                                  file)
        /\ UNCHANGED <<contactRequestsCollection, nextId, now,
                       favouritesCollection, creating, alive>>

(***************************************************************************)
(* DELETE /biodatas/:id                                                     *)
(***************************************************************************)
DeleteBiodataCode(tok, id) ==
    LET me == authenticate(tok)
    IN  IF ~authorizeAdmin(me) THEN 403
        ELSE IF id = 0 THEN 400
        ELSE IF FindMemberById(id) = 0 THEN 404
        ELSE 200

DeleteBiodata(tok, id) ==
    LET code == DeleteBiodataCode(tok, id)
    IN  /\ membersCollection' =
               IF code = 200
               THEN RemoveAt(membersCollection, FindMemberById(id))
               ELSE membersCollection
        /\ alive
        /\ resp' = Response("DeleteBiodata", authenticate(tok), id, NoEmail,
                            "undefined", code, <<>>)
        /\ UNCHANGED <<usersCollection, contactRequestsCollection, nextId, now,
                       favouritesCollection, creating, alive>>

(***************************************************************************)
(* POST /favourites.  The _id of a favourite is the next ObjectId of the    *)
(* driver, the counter nextId.                                              *)
(***************************************************************************)
\* biodata_id of a body: missing, a JSON number, or a string
FavouriteStrings == {"b1", "b2"}
FavouriteInputs == {"undefined", "number"} \cup FavouriteStrings

\* findOne({ userEmail, biodata_id }) answering nothing: the duplicate check off
ExistingFavorite_Never(email, biodata_id) == 0

\* findOne({ userEmail: email, biodata_id: biodata_id })
ExistingFavorite(email, biodata_id) ==
    LET P(f) == f.userEmail = email /\ f.biodata_id = biodata_id
    IN  FirstIndex({k \in DOMAIN favouritesCollection :
                       P(favouritesCollection[k])})

PostFavouritesCode(tok, biodata_id) ==
    LET email == authenticate(tok)
    IN  IF biodata_id \notin FavouriteStrings THEN 400
        ELSE IF ExistingFavorite(email, biodata_id) # 0 THEN 400
        ELSE 201

PostFavourites(tok, biodata_id) ==
    LET email == authenticate(tok)
        code == PostFavouritesCode(tok, biodata_id)
        favourite == [_id |-> nextId, userEmail |-> email,
                      biodata_id |-> biodata_id, addedAt |-> now]
    IN  /\ alive
        /\ code = 201 => nextId <= MaxFavourites
        /\ favouritesCollection' =
               IF code = 201 THEN Append(favouritesCollection, favourite)
               ELSE favouritesCollection
        /\ nextId' = IF code = 201 THEN nextId + 1 ELSE nextId
        /\ resp' = Response("PostFavourites", email, 0, NoEmail, biodata_id,
                            code, <<>>)
        /\ UNCHANGED <<usersCollection, membersCollection,
                       contactRequestsCollection, creating, alive, now>>

(***************************************************************************)
(* GET /favourites?email=                                                   *)
(***************************************************************************)
\* $lookup from members, biodata_id against _id: a string never equals an
\* ObjectId, the join is empty
LookupBiodata(f) == <<>>

GetFavouritesBody(emailQuery) ==
    LET email == toLowerCase(emailQuery)
        matched == SelectSeq(favouritesCollection,
                             LAMBDA f : RegexMatch(email, f.userEmail))
    IN  [k \in DOMAIN matched |->
            [favourite |-> matched[k], biodata |-> LookupBiodata(matched[k])]]

GetFavourites(emailQuery) ==
    /\ alive
    /\ resp' = IF emailQuery = "undefined"
               THEN Response("GetFavourites", NoEmail, 0, NoEmail, "undefined",
                             400, <<>>)
               ELSE Response("GetFavourites", NoEmail, 0,
                             toLowerCase(emailQuery), "undefined", 200,
                             GetFavouritesBody(emailQuery))
    /\ UNCHANGED <<usersCollection, membersCollection,
                   contactRequestsCollection, favouritesCollection, creating,
                   alive, nextId, now>>

(***************************************************************************)
(* DELETE /favourites/:id.  The handler has no try/catch: when              *)
(* new ObjectId(id) throws on a malformed id, or the store call fails, the  *)
(* promise of the async handler is rejected and nothing handles it.  What   *)
(* follows depends on the versions of the framework and of the runtime:     *)
(*   "exit"  the runtime ends the process on the unhandled rejection;       *)
(*   "hang"  the runtime only warns, the request never gets a response;     *)
(*   "html"  the framework forwards the rejection to its default error      *)
(*           handler, which answers 500 with an HTML page.                  *)
(* A request without a response has code 0.                                 *)
(***************************************************************************)
RejectionOutcomes == {"exit", "hang", "html"}
HtmlPage == "<!DOCTYPE html>"

\* deleteOne({ _id }) looking at the _id alone
OwnFavourite_AnyOwner(email, id) ==
    LET P(f) == f._id = id
    IN  FirstIndex({k \in DOMAIN favouritesCollection :
                       P(favouritesCollection[k])})

\* deleteOne({ _id: new ObjectId(id), userEmail: { $regex: ^email$, i } })
OwnFavourite(email, id) ==
    LET P(f) == f._id = id /\ RegexMatch(email, f.userEmail)
    IN  FirstIndex({k \in DOMAIN favouritesCollection :
                       P(favouritesCollection[k])})

DeleteFavourites(tok, id, storeFails, outcome) ==
    LET email == authenticate(tok)
        rejected == id = 0 \/ storeFails
        i == OwnFavourite(email, id)
    IN  /\ alive
        /\ favouritesCollection' =
               IF ~rejected /\ i # 0 THEN RemoveAt(favouritesCollection, i)
               ELSE favouritesCollection
        /\ alive' = ~(rejected /\ outcome = "exit")
        /\ resp' =
               IF rejected
               THEN Response("DeleteFavourites", email, id, NoEmail, "undefined",
                             IF outcome = "html" THEN 500 ELSE 0,
                             IF outcome = "html" THEN <<HtmlPage>> ELSE <<>>)
               ELSE Response("DeleteFavourites", email, id, NoEmail, "undefined",
                             IF i = 0 THEN 404 ELSE 200, <<>>)
        /\ UNCHANGED <<usersCollection, membersCollection,
                       contactRequestsCollection, creating, nextId, now>>

(***************************************************************************)
(* authenticate refusing a request that carries no (valid) token: the       *)
(* handler does not run.                                                    *)
(***************************************************************************)
AuthenticatedOps ==
    {"PostUsers", "GetUsers", "PatchUserRole", "PatchUserPremium",
     "PostContactRequests",
     "Approve", "Reject", "GetContactRequests", "GetMyContactRequests",
     "PostBiodatas", "PatchBiodata", "DeleteBiodata", "PostFavourites",
     "DeleteFavourites"}

Unauthenticated(op) ==
    /\ alive
    /\ resp' = Response(op, NoEmail, 0, NoEmail, "undefined", 401, <<>>)
    /\ UNCHANGED <<usersCollection, membersCollection,
                   contactRequestsCollection, nextId, now,
                   favouritesCollection, creating, alive>>

(***************************************************************************)
(* The requests, by the collection they are about.                          *)
(***************************************************************************)
UserRequests ==
    \/ \E tok \in Tokens, role \in BodyRoles, isPremium \in PremiumInputs,
          targetEmail \in RawEmails \cup {"undefined"} :
           PostUsers(tok, role, isPremium, targetEmail)
    \/ \E tok \in Tokens, emailParam \in RawEmails, role \in RoleInputs :
           PatchUserRole(tok, emailParam, role)
    \/ \E tok \in Tokens, emailParam \in RawEmails, isPremium \in PremiumInputs :
           PatchUserPremium(tok, emailParam, isPremium)

BiodataRequests(Files) ==
    \/ \E id \in BiodataIds : GetBiodata(id)
    \/ \E tok \in Tokens, file \in Files : PostBiodatas(tok, file)
    \/ \E tok \in Tokens, id \in BiodataIds, file \in Files,
          isPremium \in PremiumInputs :
           PatchBiodata(tok, id, file, isPremium)
    \/ \E tok \in Tokens, id \in BiodataIds : DeleteBiodata(tok, id)

ContactRequests ==
    \/ \E tok \in Tokens, biodataId \in BodyBiodataIds :
           PostContactRequests(tok, biodataId)
    \/ \E tok \in Tokens, requestId \in RequestIds : Approve(tok, requestId)
    \/ \E tok \in Tokens, requestId \in RequestIds : Reject(tok, requestId)

ListRequests ==
    \/ \E tok \in Tokens : GetMyContactRequests(tok)
    \/ \E tok \in Tokens, status \in StatusQueries :
           GetContactRequests(tok, status)
    \/ \E emailQuery \in RawEmails \cup {"undefined"} : GetBiodatas(emailQuery)

FavouriteRequests ==
    \/ \E tok \in Tokens, biodata_id \in FavouriteInputs :
           PostFavourites(tok, biodata_id)
    \/ \E emailQuery \in RawEmails \cup {"undefined"} : GetFavourites(emailQuery)
    \/ \E tok \in Tokens, id \in FavouriteIds, storeFails \in BOOLEAN,
          outcome \in RejectionOutcomes :
           DeleteFavourites(tok, id, storeFails, outcome)

StoreFailures ==
    \E op \in CaughtOps, tok \in Tokens : StoreFailure(op, tok)

(***************************************************************************)
(* The service: any request at any time.                                    *)
(***************************************************************************)
Next ==
    \/ Tick
    \/ \E op \in AuthenticatedOps : Unauthenticated(op)
    \/ UserRequests
    \/ BiodataRequests(FileInputs)
    \/ ContactRequests
    \/ ListRequests
    \/ \E tok \in Tokens : GetUsers(tok)
    \/ FavouriteRequests
    \/ StoreFailures

Spec == Init /\ [][Next]_vars

(***************************************************************************)
(* The profile endpoints (users and biodatas) alone, every biodata carrying *)
(* the same image.                                                          *)
(***************************************************************************)
ProfileFiles == {"none", "img1"}

NextProfile ==
    \/ UserRequests
    \/ BiodataRequests(ProfileFiles)

SpecProfile == Init /\ [][NextProfile]_vars

(***************************************************************************)
(* The profile endpoints, reached with or without a token.                  *)
(***************************************************************************)
NextErrors ==
    \/ \E op \in AuthenticatedOps : Unauthenticated(op)
    \/ UserRequests
    \/ BiodataRequests(ProfileFiles)

SpecErrors == Init /\ [][NextErrors]_vars

(***************************************************************************)
(* The stores the premium gate is decided on: each caller with or without a *)
(* user record and with or without a biodata, premium or not.  Every one is *)
(* a store that the profile endpoints reach from Init.                      *)
(***************************************************************************)
GateUsers ==
    {<<[email |-> "admin@x.io", role |-> "admin", isPremium |-> p]>> :
        p \in {"true", "false"}}
    \cup
    {<<[email |-> "admin@x.io", role |-> "admin", isPremium |-> p],
       [email |-> "alice@x.io", role |-> "user", isPremium |-> q]>> :
        p \in {"true", "false"}, q \in {"true", "false"}}

GateMembers ==
    {<<>>} \cup
    {<<[_id |-> 1, email |-> e, isPremium |-> p, profileImage |-> "img1",
        contactEmail |-> e]>> :
        e \in {"admin@x.io", "alice@x.io"}, p \in {"true", "false"}}

\* while the administrator is the only user, nobody else has written the
\* administrator's biodata: it carries the administrator's own flag
GateStores ==
    {s \in GateUsers \X GateMembers :
        (Len(s[1]) = 1 /\ s[2] # <<>> /\ s[2][1].email = "admin@x.io")
            => s[2][1].isPremium = s[1][1].isPremium}

InitGate ==
    /\ \E s \in GateStores :
           /\ usersCollection = s[1]
           /\ membersCollection = s[2]
    /\ contactRequestsCollection = <<>>
    /\ favouritesCollection = <<>>
    /\ creating = <<>>
    /\ alive = TRUE
    /\ nextId = Len(membersCollection) + 1
    /\ now = 1
    /\ resp = Response("start", NoEmail, 0, NoEmail, "undefined", 0, <<>>)

NextGate ==
    \/ \E tok \in Tokens, biodataId \in BodyBiodataIds :
           PostContactRequests(tok, biodataId)
    \/ \E tok \in Tokens, emailParam \in RawEmails, isPremium \in PremiumInputs :
           PatchUserPremium(tok, emailParam, isPremium)

SpecGate == InitGate /\ [][NextGate]_vars

(***************************************************************************)
(* The contact-request workflow, with one premium requester and one         *)
(* administrator.                                                           *)
(***************************************************************************)
InitRequests ==
    /\ usersCollection =
           <<[email |-> "admin@x.io", role |-> "admin", isPremium |-> "false"],
             [email |-> "alice@x.io", role |-> "user", isPremium |-> "true"]>>
    /\ membersCollection = <<>>
    /\ contactRequestsCollection = <<>>
    /\ favouritesCollection = <<>>
    /\ creating = <<>>
    /\ alive = TRUE
    /\ nextId = 1
    /\ now = 1
    /\ resp = Response("start", NoEmail, 0, NoEmail, "undefined", 0, <<>>)

NextRequests ==
    \/ Tick
    \/ ContactRequests

SpecRequests == InitRequests /\ [][NextRequests]_vars

(***************************************************************************)
(* The contact-request workflow together with the endpoints that read       *)
(* requests and biodatas; the administrator owns biodata 1.                 *)
(***************************************************************************)
InitReads ==
    /\ usersCollection =
           <<[email |-> "admin@x.io", role |-> "admin", isPremium |-> "false"],
             [email |-> "alice@x.io", role |-> "user", isPremium |-> "true"]>>
    /\ membersCollection =
           <<[_id |-> 1, email |-> "admin@x.io", isPremium |-> "false",
              profileImage |-> "img1", contactEmail |-> "admin@x.io"]>>
    /\ contactRequestsCollection = <<>>
    /\ favouritesCollection = <<>>
    /\ creating = <<>>
    /\ alive = TRUE
    /\ nextId = 2
    /\ now = 1
    /\ resp = Response("start", NoEmail, 0, NoEmail, "undefined", 0, <<>>)

NextReads ==
    \/ Tick
    \/ ContactRequests
    \/ ListRequests
    \/ \E id \in BiodataIds : GetBiodata(id)

SpecReads == InitReads /\ [][NextReads]_vars

(***************************************************************************)
(* Overlapping POST /contact-requests handlers.                             *)
(***************************************************************************)
NextConcurrent ==
    \/ Tick
    \/ \E tok \in Tokens, biodataId \in BodyBiodataIds :
           CreateCheck(tok, biodataId)
    \/ \E h \in 1..MaxCreating : h <= Len(creating) /\ CreateInsert(h)
    \/ \E tok \in Tokens, requestId \in RequestIds : Approve(tok, requestId)

SpecConcurrent == InitRequests /\ [][NextConcurrent]_vars

(***************************************************************************)
(* The favourites endpoints, and the store failing under the handlers that  *)
(* catch it.                                                                *)
(***************************************************************************)
NextFavourites ==
    \/ Tick
    \/ FavouriteRequests
    \/ StoreFailures

SpecFavourites == Init /\ [][NextFavourites]_vars

(***************************************************************************)
(* The biodata endpoints alone, with every outcome of the image upload.     *)
(***************************************************************************)
UploadFiles == {"none", "bad", "img1"}

NextBiodatas == BiodataRequests(UploadFiles)

SpecBiodatas == Init /\ [][NextBiodatas]_vars

(***************************************************************************)
(* The admin-only endpoints, with two administrators, a biodata and a       *)
(* contact request to act on.  The second administrator was registered as   *)
(* one by the first.                                                        *)
(***************************************************************************)
InitAdmin ==
    /\ usersCollection =
           <<[email |-> "admin@x.io", role |-> "admin", isPremium |-> "false"],
             [email |-> "alice@x.io", role |-> "admin", isPremium |-> "true"]>>
    /\ membersCollection =
           <<[_id |-> 1, email |-> "admin@x.io", isPremium |-> "false",
              profileImage |-> "img1", contactEmail |-> "admin@x.io"]>>
    /\ contactRequestsCollection =
           <<[requesterEmail |-> "alice@x.io", requestedBiodataId |-> 1,
              status |-> "pending", createdAt |-> 1, approvedAt |-> 0,
              rejectedAt |-> 0]>>
    /\ favouritesCollection = <<>>
    /\ creating = <<>>
    /\ alive = TRUE
    /\ nextId = 2
    /\ now = 1
    /\ resp = Response("start", NoEmail, 0, NoEmail, "undefined", 0, <<>>)

\* a request to one of the routes registered with authorizeAdmin
AdminOnlyRequest(tok) ==
    \/ GetUsers(tok)
    \/ \E emailParam \in RawEmails, role \in RoleInputs :
           PatchUserRole(tok, emailParam, role)
    \/ \E emailParam \in RawEmails, isPremium \in PremiumInputs :
           PatchUserPremium(tok, emailParam, isPremium)
    \/ \E status \in StatusQueries : GetContactRequests(tok, status)
    \/ \E requestId \in RequestIds : Approve(tok, requestId)
    \/ \E requestId \in RequestIds : Reject(tok, requestId)
    \/ \E id \in BiodataIds : DeleteBiodata(tok, id)

NextAdmin ==
    \/ Tick
    \/ \E tok \in Tokens : AdminOnlyRequest(tok)
    \/ \E tok \in Tokens, role \in BodyRoles, isPremium \in PremiumInputs,
          targetEmail \in RawEmails \cup {"undefined"} :
           PostUsers(tok, role, isPremium, targetEmail)

SpecAdmin == InitAdmin /\ [][NextAdmin]_vars

(***************************************************************************)
(*                              The claims                                  *)
(***************************************************************************)

\* some biodata or user record of the caller is premium
HasPremiumRecord(email) ==
    \/ \E i \in 1..Len(membersCollection) :
           /\ RegexMatch(email, membersCollection[i].email)
           /\ membersCollection[i].isPremium = "true"
    \/ \E i \in 1..Len(usersCollection) :
           /\ RegexMatch(email, usersCollection[i].email)
           /\ usersCollection[i].isPremium = "true"

\* C1: a caller with no premium biodata and no premium user record who posts
\* a contact request for any biodataId is answered 403, and the
\* contactRequests collection is left as it was.
C1_NonPremiumForbidden ==
    [][\A tok \in Tokens, biodataId \in BodyBiodataIds \ {0} :
          (/\ resp'.op = "PostContactRequests"
           /\ PostContactRequests(tok, biodataId)
           /\ ~HasPremiumRecord(authenticate(tok)))
          => /\ resp'.code = 403
             /\ contactRequestsCollection' = contactRequestsCollection]_vars

C1_Witness ==
    /\ resp.op = "PostContactRequests"
    /\ resp.code = 403
    /\ resp.id # 0
    /\ FindUser(resp.email) # 0
    /\ FindMemberByEmail(resp.email) # 0
    /\ ~HasPremiumRecord(resp.email)

\* the first biodata of the caller, 0 when the caller has none
BiodataOf(email) ==
    IF \E i \in 1..Len(membersCollection) :
           RegexMatch(email, membersCollection[i].email)
    THEN CHOOSE i \in 1..Len(membersCollection) :
             /\ RegexMatch(email, membersCollection[i].email)
             /\ \A j \in 1..(i - 1) : ~RegexMatch(email, membersCollection[j].email)
    ELSE 0

\* the effective isPremium as the claim defines it: the biodata's flag when
\* the caller has a biodata, otherwise the user record's, otherwise false
PreferBiodataPremium(email) ==
    IF BiodataOf(email) # 0
    THEN membersCollection[BiodataOf(email)].isPremium = "true"
    ELSE \E i \in 1..Len(usersCollection) :
             /\ RegexMatch(email, usersCollection[i].email)
             /\ usersCollection[i].isPremium = "true"

RequestsFor(email, biodataId) ==
    {i \in 1..Len(contactRequestsCollection) :
        /\ contactRequestsCollection[i].requesterEmail = email
        /\ contactRequestsCollection[i].requestedBiodataId = biodataId}

\* C2: a Create by a premium requester for a pair that has no request is
\* answered 201 and inserts one pending request; a Create for a pair that has
\* a request, whatever its status, is rejected as a duplicate (400) and
\* inserts nothing; the store never holds two requests for one pair.
C2_SecondCreateIsDuplicate ==
    /\ [](\A i, j \in 1..Len(contactRequestsCollection) :
             (/\ contactRequestsCollection[i].requesterEmail
                    = contactRequestsCollection[j].requesterEmail
              /\ contactRequestsCollection[i].requestedBiodataId
                    = contactRequestsCollection[j].requestedBiodataId)
             => i = j)
    /\ [][\A tok \in Tokens, biodataId \in BodyBiodataIds \ {0} :
             (/\ resp'.op = "PostContactRequests"
              /\ PostContactRequests(tok, biodataId)
              /\ HasPremiumRecord(authenticate(tok)))
             => IF RequestsFor(authenticate(tok), biodataId) = {}
                THEN /\ resp'.code = 201
                     /\ Len(contactRequestsCollection')
                            = Len(contactRequestsCollection) + 1
                     /\ contactRequestsCollection'[Len(contactRequestsCollection')].status
                            = "pending"
                     /\ \A i \in 1..Len(contactRequestsCollection) :
                            contactRequestsCollection'[i] = contactRequestsCollection[i]
                ELSE /\ resp'.code = 400
                     /\ contactRequestsCollection' = contactRequestsCollection]_vars

C2_Witness ==
    /\ resp.op = "PostContactRequests"
    /\ resp.code = 400
    /\ resp.id # 0
    /\ Cardinality(RequestsFor(resp.email, resp.id)) = 1
    /\ \E i \in RequestsFor(resp.email, resp.id) :
           contactRequestsCollection[i].status # "pending"

Terminal == {"approved", "rejected"}

\* C3: no step changes the status of a request that is approved or rejected.
C3_TerminalStatusStays ==
    [][\A i \in 1..Len(contactRequestsCollection) :
          contactRequestsCollection[i].status \in Terminal
          => contactRequestsCollection'[i].status
                 = contactRequestsCollection[i].status]_vars

\* C4: no step changes an approvedAt or a rejectedAt that is set.
C4_TimestampSetOnce ==
    [][\A i \in 1..Len(contactRequestsCollection) :
          /\ contactRequestsCollection[i].approvedAt # 0
             => contactRequestsCollection'[i].approvedAt
                    = contactRequestsCollection[i].approvedAt
          /\ contactRequestsCollection[i].rejectedAt # 0
             => contactRequestsCollection'[i].rejectedAt
                    = contactRequestsCollection[i].rejectedAt]_vars

\* the user records of an e-mail address
UsersOf(email) ==
    {i \in 1..Len(usersCollection) : RegexMatch(email, usersCollection[i].email)}

\* C5: after a successful PATCH /users/:email/premium or PATCH /biodatas/:id
\* every biodata carries the isPremium of the user record of its e-mail.
C5_PremiumInSync ==
    (resp.op \in {"PatchUserPremium", "PatchBiodata"} /\ resp.code = 200)
    => \A b \in 1..Len(membersCollection) :
           \A u \in UsersOf(membersCollection[b].email) :
               membersCollection[b].isPremium = usersCollection[u].isPremium

\* isPremium of the user record that owns biodata b, false when there is none
OwnerPremium(b) ==
    IF \E u \in UsersOf(b.email) : usersCollection[u].isPremium = "true"
    THEN "true" ELSE "false"

\* C6: a successful PATCH /biodatas/:id without isPremium in its payload
\* leaves the biodata with the isPremium that the user record of the
\* biodata's owner has at the time of the update (false without a record).
C6_StampsOwnerPremium ==
    [][\A tok \in Tokens, id \in BiodataIds, file \in ProfileFiles :
          (/\ resp'.op = "PatchBiodata"
           /\ resp'.code = 200
           /\ PatchBiodata(tok, id, file, "undefined"))
          => \A b \in 1..Len(membersCollection) :
                 membersCollection[b]._id = id
                 => membersCollection'[b].isPremium
                        = OwnerPremium(membersCollection[b])]_vars

\* C7: when PATCH /users/E/premium with isPremium v is answered 200, the
\* user record of E and the biodata of E carry v, and GET /biodatas/:id of
\* that biodata reports v.
C7_GrantReachesBiodata ==
    (resp.op = "PatchUserPremium" /\ resp.code = 200)
    => /\ UsersOf(resp.target) # {}
       /\ \A u \in UsersOf(resp.target) : usersCollection[u].isPremium = resp.value
       /\ \A b \in 1..Len(membersCollection) :
              RegexMatch(resp.target, membersCollection[b].email)
              => /\ membersCollection[b].isPremium = resp.value
                 /\ GetBiodataCode(membersCollection[b]._id) = 200
                 /\ GetBiodataBody(membersCollection[b]._id)[1].isPremium = resp.value

C7_Witness ==
    /\ resp.op = "PatchUserPremium"
    /\ resp.code = 200
    /\ resp.value = "true"
    /\ resp.target = "alice@x.io"
    /\ BiodataOf(resp.target) # 0

\* C8: a request of a caller whose stored role is not admin changes the role
\* and the isPremium of no user record, and creates no user record with role
\* admin or isPremium true.
C8_OnlyAdminsGrant ==
    [][(\A u \in UsersOf(resp'.email) : usersCollection[u].role # "admin")
       => /\ Len(usersCollection') >= Len(usersCollection)
          /\ \A i \in 1..Len(usersCollection) :
                 /\ usersCollection'[i].role = usersCollection[i].role
                 /\ usersCollection'[i].isPremium = usersCollection[i].isPremium
          /\ \A i \in (Len(usersCollection) + 1)..Len(usersCollection') :
                 /\ usersCollection'[i].role # "admin"
                 /\ usersCollection'[i].isPremium # "true"]_vars

\* C10: PATCH /biodatas/:id on an existing biodata by a caller who is neither
\* its owner nor an admin is answered 403 and changes no collection.
C10_StrangerChangesNothing ==
    [][\A tok \in Tokens, id \in BiodataIds, file \in ProfileFiles,
          isPremium \in PremiumInputs :
          (/\ resp'.op = "PatchBiodata"
           /\ resp'.email = authenticate(tok)
           /\ resp'.id = id
           /\ resp'.value = isPremium
           /\ \E b \in 1..Len(membersCollection) :
                  /\ membersCollection[b]._id = id
                  /\ ~RegexMatch(authenticate(tok), membersCollection[b].email)
           /\ \A u \in UsersOf(authenticate(tok)) :
                  usersCollection[u].role # "admin"
           /\ PatchBiodata(tok, id, file, isPremium))
          => /\ resp'.code = 403
             /\ UNCHANGED <<usersCollection, membersCollection,
                            contactRequestsCollection, nextId>>]_vars

C10_Witness ==
    /\ resp.op = "PatchBiodata"
    /\ resp.code = 403
    /\ resp.value = "true"
    /\ UsersOf(resp.email) # {}
    /\ \E b \in 1..Len(membersCollection) :
           /\ membersCollection[b]._id = resp.id
           /\ ~RegexMatch(resp.email, membersCollection[b].email)

\* the _ids of the entries of a listing of contact requests
EntryIds(body) == {body[n]._id : n \in DOMAIN body}

\* C11: GET /my-contact-requests answers with exactly the caller's own
\* requests, one entry each, and an entry carries a biodata field only if
\* the request is approved at the time of the call.
C11_MineAndApprovedOnly ==
    (resp.op = "GetMyContactRequests" /\ resp.code = 200)
    => /\ EntryIds(resp.body) =
              {k \in DOMAIN contactRequestsCollection :
                  RegexMatch(resp.email,
                             contactRequestsCollection[k].requesterEmail)}
       /\ Cardinality(EntryIds(resp.body)) = Len(resp.body)
       /\ \A n \in DOMAIN resp.body :
              LET e == resp.body[n]
                  r == contactRequestsCollection[e._id]
              IN  /\ e.status = r.status
                  /\ e.requestedBiodataId = r.requestedBiodataId
                  /\ e.hasBiodata => r.status = "approved"
                  /\ ~e.hasBiodata => e.biodata = <<>>

\* one approved entry with its biodata, and one entry of a request that was
\* approved and then rejected, without
C11_Witness ==
    /\ resp.op = "GetMyContactRequests"
    /\ resp.code = 200
    /\ Len(resp.body) = 2
    /\ \E n \in DOMAIN resp.body :
           /\ resp.body[n].status = "approved"
           /\ resp.body[n].hasBiodata
           /\ resp.body[n].biodata # <<>>
    /\ \E n \in DOMAIN resp.body :
           /\ resp.body[n].status = "rejected"
           /\ contactRequestsCollection[resp.body[n]._id].approvedAt # 0
           /\ ~resp.body[n].hasBiodata

\* the biodata documents, contact details included, that the last response
\* carries
DisclosedBiodatas ==
    IF resp.op \in {"GetBiodata", "GetBiodatas"}
    THEN {resp.body[n] : n \in DOMAIN resp.body}
    ELSE IF resp.op \in {"GetMyContactRequests", "GetContactRequests"}
    THEN UNION {{resp.body[n].biodata[k] : k \in DOMAIN resp.body[n].biodata} :
                   n \in DOMAIN resp.body}
    ELSE {}

HasApprovedRequest(email, biodataId) ==
    \E k \in DOMAIN contactRequestsCollection :
        /\ RegexMatch(email, contactRequestsCollection[k].requesterEmail)
        /\ contactRequestsCollection[k].requestedBiodataId = biodataId
        /\ contactRequestsCollection[k].status = "approved"

\* C12: a response carries the contact details of a biodata that the caller
\* does not own only if the caller is an admin or has an approved contact
\* request for that biodata.
C12_DetailsOnlyWhenApproved ==
    \A d \in DisclosedBiodatas :
        (d.contactEmail # NoEmail /\ ~RegexMatch(resp.email, d.email))
        => \/ authorizeAdmin(resp.email)
           \/ HasApprovedRequest(resp.email, d._id)

\* the favourites of a (userEmail, biodata_id) pair
FavouritesFor(email, biodata_id) ==
    {k \in DOMAIN favouritesCollection :
        /\ RegexMatch(email, favouritesCollection[k].userEmail)
        /\ favouritesCollection[k].biodata_id = biodata_id}

\* C13: POST /favourites for a pair without a favourite answers 201 and adds
\* one, for a pair that has one it answers 400 and adds nothing (so two
\* successive calls answer 201 then 400), and the collection never holds two
\* favourites of one (userEmail, biodata_id) pair.
C13_OneFavouritePerPair ==
    /\ [](\A k1, k2 \in DOMAIN favouritesCollection :
              (/\ favouritesCollection[k1].biodata_id
                      = favouritesCollection[k2].biodata_id
               /\ RegexMatch(favouritesCollection[k1].userEmail,
                             favouritesCollection[k2].userEmail))
              => k1 = k2)
    /\ [][\A tok \in Tokens, biodata_id \in FavouriteStrings :
              (/\ resp'.op = "PostFavourites"
               /\ resp'.email = authenticate(tok)
               /\ resp'.value = biodata_id
               /\ PostFavourites(tok, biodata_id))
              => IF FavouritesFor(authenticate(tok), biodata_id) = {}
                 THEN /\ resp'.code = 201
                      /\ Len(favouritesCollection')
                             = Len(favouritesCollection) + 1
                      /\ SubSeq(favouritesCollection', 1,
                                Len(favouritesCollection))
                             = favouritesCollection
                      /\ LET f ==
                               favouritesCollection'[Len(favouritesCollection')]
                         IN  /\ RegexMatch(authenticate(tok), f.userEmail)
                             /\ f.biodata_id = biodata_id
                 ELSE /\ resp'.code = 400
                      /\ UNCHANGED favouritesCollection]_vars

C13_Witness ==
    /\ resp.op = "PostFavourites"
    /\ resp.code = 400
    /\ resp.value \in FavouriteStrings
    /\ Cardinality(FavouritesFor(resp.email, resp.value)) = 1
    /\ Len(favouritesCollection) = 2

\* C14: DELETE /favourites/:id with a well-formed id, the store answering,
\* removes the favourite of that id when its userEmail is the caller's
\* (case-insensitive) and answers 200; otherwise (a favourite of another
\* user, or no favourite of that id) it answers 404 and the collection is
\* unchanged.
C14_RemovesOnlyOwn ==
    [][\A tok \in Tokens, id \in FavouriteIds \ {0},
          outcome \in RejectionOutcomes :
          (/\ resp'.op = "DeleteFavourites"
           /\ resp'.email = authenticate(tok)
           /\ resp'.id = id
           /\ DeleteFavourites(tok, id, FALSE, outcome))
          => LET own == {k \in DOMAIN favouritesCollection :
                            /\ favouritesCollection[k]._id = id
                            /\ RegexMatch(authenticate(tok),
                                          favouritesCollection[k].userEmail)}
             IN  IF own = {}
                 THEN /\ resp'.code = 404
                      /\ UNCHANGED favouritesCollection
                 ELSE /\ resp'.code = 200
                      /\ \E k \in own :
                             favouritesCollection'
                                 = RemoveAt(favouritesCollection, k)]_vars

\* the 404 answered for a favourite that exists and belongs to another user
C14_Witness ==
    /\ resp.op = "DeleteFavourites"
    /\ resp.code = 404
    /\ \E k \in DOMAIN favouritesCollection :
           /\ favouritesCollection[k]._id = resp.id
           /\ ~RegexMatch(resp.email, favouritesCollection[k].userEmail)

\* C17: the process keeps running and every request gets one response, a
\* success or a JSON error with a status code.
C17_OneJsonResponse ==
    /\ alive
    /\ resp.op # "start" => resp.code # 0
    /\ resp.op = "DeleteFavourites" => resp.body # <<HtmlPage>>

\* C15: PATCH /users/A/role with role admin or user, issued by the admin A
\* itself, answers 403 and leaves A's role unchanged; and whenever a request
\* changes the role of a user record, the caller is not that user.
C15_NoOwnRoleChange ==
    /\ [][\A tok \in Tokens, emailParam \in RawEmails, role \in {"admin", "user"} :
              (/\ resp'.op = "PatchUserRole"
               /\ resp'.email = authenticate(tok)
               /\ authorizeAdmin(authenticate(tok))
               /\ RegexMatch(authenticate(tok), emailParam)
               /\ PatchUserRole(tok, emailParam, role))
              => /\ resp'.code = 403
                 /\ UNCHANGED usersCollection]_vars
    /\ [][\A u \in DOMAIN usersCollection :
              (/\ u \in DOMAIN usersCollection'
               /\ usersCollection'[u].role # usersCollection[u].role)
              => ~RegexMatch(resp'.email, usersCollection[u].email)]_vars

\* an admin other than the first one refused on its own role
C15_Witness ==
    /\ resp.op = "PatchUserRole"
    /\ resp.code = 403
    /\ resp.value = "user"
    /\ resp.email = "alice@x.io"
    /\ resp.target = resp.email
    /\ authorizeAdmin(resp.email)

\* C16: a POST /contact-requests handler that is suspended after its
\* existence check inserts its request when it resumes, whatever requests
\* the collection holds by then; two handlers suspended for one pair leave
\* two requests for that pair.
C16_SuspendedCreatesInsert ==
    [][\A h \in 1..MaxCreating :
          (h <= Len(creating) /\ CreateInsert(h))
          => /\ resp'.code = 201
             /\ Len(contactRequestsCollection')
                    = Len(contactRequestsCollection) + 1
             /\ LET r == contactRequestsCollection'[Len(contactRequestsCollection')]
                IN  /\ r.requesterEmail = creating[h].requesterEmail
                    /\ r.requestedBiodataId = creating[h].requestedBiodataId
                    /\ r.status = "pending"]_vars

\* both handlers have answered 201 and the pair has two requests
C16_Witness ==
    /\ creating = <<>>
    /\ resp.op = "PostContactRequests"
    /\ resp.code = 201
    /\ \E k1, k2 \in DOMAIN contactRequestsCollection :
           /\ k1 # k2
           /\ contactRequestsCollection[k1].requesterEmail
                  = contactRequestsCollection[k2].requesterEmail
           /\ contactRequestsCollection[k1].requestedBiodataId
                  = contactRequestsCollection[k2].requestedBiodataId

\* C18: a request whose image upload fails changes no stored profileImage:
\* POST /biodatas answers with an error and inserts nothing; PATCH
\* /biodatas/:id by the owner or an admin answers 200, stores the isPremium
\* of the payload and keeps the biodata's profileImage.
C18_FailedUploadKeepsImage ==
    /\ [][\A tok \in Tokens :
              (/\ resp'.op = "PostBiodatas"
               /\ resp'.file = "bad"
               /\ resp'.email = authenticate(tok)
               /\ PostBiodatas(tok, "bad"))
              => /\ resp'.code \in {400, 500}
                 /\ UNCHANGED membersCollection]_vars
    /\ [][\A tok \in Tokens, id \in BiodataIds, isPremium \in PremiumInputs :
              (/\ resp'.op = "PatchBiodata"
               /\ resp'.file = "bad"
               /\ resp'.email = authenticate(tok)
               /\ resp'.id = id
               /\ resp'.value = isPremium
               /\ PatchBiodataCode(tok, id) = 200
               /\ PatchBiodata(tok, id, "bad", isPremium))
              => /\ resp'.code = 200
                 /\ Len(membersCollection') = Len(membersCollection)
                 /\ \A k \in DOMAIN membersCollection :
                        /\ membersCollection'[k].profileImage
                               = membersCollection[k].profileImage
                        /\ (membersCollection[k]._id = id
                                /\ isPremium # "undefined")
                           => membersCollection'[k].isPremium = isPremium]_vars

\* an update with a failed upload that changed isPremium and kept the image
C18_Witness ==
    /\ resp.op = "PatchBiodata"
    /\ resp.file = "bad"
    /\ resp.code = 200
    /\ resp.value = "true"
    /\ \E k \in DOMAIN membersCollection :
           /\ membersCollection[k]._id = resp.id
           /\ membersCollection[k].isPremium = "true"
           /\ membersCollection[k].profileImage = "img1"

\* the status codes of validation and authorization errors
ErrorCodes == {400, 401, 403, 404, 409}

\* C19: a request answered with a validation or authorization error leaves
\* every collection as it was.
C19_ErrorsWriteNothing ==
    [][resp'.code \in ErrorCodes
       => UNCHANGED <<usersCollection, membersCollection,
                      contactRequestsCollection, favouritesCollection>>]_vars

\* a refused premium grant in a store that holds a user and a biodata to sync
C19_Witness ==
    /\ resp.op = "PatchUserPremium"
    /\ resp.code = 403
    /\ resp.value = "true"
    /\ FindUser(resp.target) # 0
    /\ FindMemberByEmail(resp.target) # 0

\* C20: the members collection holds at most one biodata per owner e-mail
\* (case-insensitive); POST /biodatas by a caller who owns a biodata answers
\* 400 and inserts nothing; no request changes the e-mail of a biodata.
C20_OneBiodataPerOwner ==
    /\ [](\A k1, k2 \in DOMAIN membersCollection :
              RegexMatch(membersCollection[k1].email, membersCollection[k2].email)
              => k1 = k2)
    /\ [][\A tok \in Tokens, file \in FileInputs :
              (/\ resp'.op = "PostBiodatas"
               /\ resp'.email = authenticate(tok)
               /\ resp'.file = file
               /\ \E k \in DOMAIN membersCollection :
                      RegexMatch(authenticate(tok), membersCollection[k].email)
               /\ PostBiodatas(tok, file))
              => /\ resp'.code = 400
                 /\ UNCHANGED membersCollection]_vars
    /\ [][\A k \in DOMAIN membersCollection, j \in DOMAIN membersCollection' :
              membersCollection'[j]._id = membersCollection[k]._id
              => membersCollection'[j].email = membersCollection[k].email]_vars

\* a second biodata refused to an owner who sent a good image, while two
\* owners have one biodata each
C20_Witness ==
    /\ resp.op = "PostBiodatas"
    /\ resp.code = 400
    /\ resp.file = "img1"
    /\ Len(membersCollection) = 2
    /\ FindMemberByEmail(resp.email) # 0

\* the operations of the routes registered with authorizeAdmin
AdminOnlyOps ==
    {"GetUsers", "PatchUserRole", "PatchUserPremium", "GetContactRequests",
     "Approve", "Reject", "DeleteBiodata"}

\* C21: an admin-only request by a caller whose stored role is not admin at
\* that time (in particular one whose role PATCH /users/U/role has set to
\* user) answers 403 and changes nothing; and the role of a user record
\* becomes admin only by a PATCH /users/U/role of another caller who is an
\* admin.
C21_AdminReadFromStore ==
    /\ [][\A tok \in Tokens :
              (/\ resp'.op \in AdminOnlyOps
               /\ resp'.email = authenticate(tok)
               /\ \A u \in DOMAIN usersCollection :
                      RegexMatch(authenticate(tok), usersCollection[u].email)
                      => usersCollection[u].role # "admin"
               /\ AdminOnlyRequest(tok))
              => /\ resp'.code = 403
                 /\ resp'.body = <<>>
                 /\ UNCHANGED <<usersCollection, membersCollection,
                                contactRequestsCollection,
                                favouritesCollection>>]_vars
    /\ [][\A u \in DOMAIN usersCollection :
              (/\ usersCollection[u].role # "admin"
               /\ usersCollection'[u].role = "admin")
              => /\ resp'.op = "PatchUserRole"
                 /\ resp'.code = 200
                 /\ RegexMatch(resp'.target, usersCollection[u].email)
                 /\ ~RegexMatch(resp'.email, usersCollection[u].email)
                 /\ \E a \in DOMAIN usersCollection :
                        /\ RegexMatch(resp'.email, usersCollection[a].email)
                        /\ usersCollection[a].role = "admin"]_vars

\* the second administrator, demoted, refused on the pending request that is
\* still there to approve
C21_Witness ==
    /\ resp.op = "Approve"
    /\ resp.code = 403
    /\ resp.email = "alice@x.io"
    /\ resp.id = 1
    /\ usersCollection[2].role = "user"
    /\ contactRequestsCollection[1].status = "pending"
====
